---- MODULE Spec2Model ----
(***************************************************************************)
(* Incident normalisation / aggregation, prioritisation, investigation and *)
(* hypothesis-driven hunting of the security_integrations library          *)
(* (IncidentResponseAgent in ai_agent.py, ThreatHuntingEngine in           *)
(* threat_hunting.py).                                                     *)
(*                                                                         *)
(* Encoding of Python values                                               *)
(*   str that is only compared or copied   a TLA+ string                   *)
(*   str that is sliced or searched        a sequence of 1-character       *)
(*                                         strings (a "text")              *)
(*   a value that may be None              None == << >>, Some(v) == <<v>> *)
(*   dict                                  a function whose DOMAIN is the  *)
(*                                         set of keys present             *)
(*   list                                  a sequence                      *)
(*   a call that may raise                 [ok |-> BOOLEAN, val |-> ...,   *)
(*                                          err |-> exception class]       *)
(***************************************************************************)
EXTENDS Integers, Sequences, FiniteSets, TLC

-----------------------------------------------------------------------------
(* Python built-ins used by the code                                       *)

None == << >>
Some(v) == <<v>>

\* dict.get(key): the value, or None when the key is absent.
Get(d, key) == IF key \in DOMAIN d THEN d[key] ELSE None

\* dict.get(key, default): the default only when the key is ABSENT; a key that
\* is present with the value None yields None.
GetOr(d, key, default) == IF key \in DOMAIN d THEN d[key] ELSE Some(default)

\* str(v) inside an f-string: None prints as "None".
Format(v) == IF v = None THEN "None" ELSE v[1]

\* f"{d.get(key)}" for a dict whose values are plain strings.
FormatKey(d, key) == IF key \in DOMAIN d THEN d[key] ELSE "None"

Min(a, b) == IF a < b THEN a ELSE b
Max(a, b) == IF a > b THEN a ELSE b

\* seq[a:b] with Python's rules: a negative bound counts from the end, bounds
\* are clamped to [0, len], an empty range gives the empty sequence.
\* Indices are 0-based as in Python.
ClampIndex(i, n) == IF i < 0 THEN Max(i + n, 0) ELSE Min(i, n)

Slice(s, a, b) ==
  LET n  == Len(s)
      lo == ClampIndex(a, n)
      hi == ClampIndex(b, n)
  IN  IF lo >= hi THEN << >> ELSE SubSeq(s, lo + 1, hi)

\* seq[a:]
SliceFrom(s, a) == Slice(s, a, Len(s))

\* seq[:b]
SliceTo(s, b) == Slice(s, 0, b)

\* Whether pat occurs in text at 0-based offset i.
OccursAt(text, pat, i) ==
  /\ i >= 0
  /\ i + Len(pat) <= Len(text)
  /\ \A k \in 1..Len(pat) : text[i + k] = pat[k]

Offsets(text, pat) == {i \in 0..Len(text) : OccursAt(text, pat, i)}

\* str.find(pat): lowest 0-based offset of pat, or -1.
Find(text, pat) ==
  LET O == Offsets(text, pat)
  IN  IF O = {} THEN -1 ELSE CHOOSE i \in O : \A j \in O : i <= j

\* str.rfind(pat): highest 0-based offset of pat, or -1.
RFind(text, pat) ==
  LET O == Offsets(text, pat)
  IN  IF O = {} THEN -1 ELSE CHOOSE i \in O : \A j \in O : i >= j

\* pat in text
Contains(text, pat) == Offsets(text, pat) # {}

-----------------------------------------------------------------------------
(* json.loads on a text.  The grammar is JSON restricted to: objects,      *)
(* arrays, strings without escapes, unsigned integers, true/false/null,    *)
(* and the whitespace characters space and newline.  A parsed value is     *)
(*   [t |-> "object", keys |-> <<text,...>>, vals |-> <<value,...>>]       *)
(*   [t |-> "array", items |-> <<value,...>>]                              *)
(*   [t |-> "string", s |-> text]   [t |-> "number", digits |-> text]      *)
(*   [t |-> "literal", name |-> "true" | "false" | "null"]                 *)
(* Positions are 1-based indices into the text.                            *)

Digits == {"0", "1", "2", "3", "4", "5", "6", "7", "8", "9"}
Whitespace == {" ", "\n"}

ParseFail == [ok |-> FALSE, pos |-> 0]
ParseOk(v, p) == [ok |-> TRUE, val |-> v, pos |-> p]

RECURSIVE SkipWs(_, _)
SkipWs(s, i) ==
  IF i <= Len(s) /\ s[i] \in Whitespace THEN SkipWs(s, i + 1) ELSE i

RECURSIVE ScanDigits(_, _)
ScanDigits(s, i) ==
  IF i <= Len(s) /\ s[i] \in Digits THEN ScanDigits(s, i + 1) ELSE i

RECURSIVE ScanString(_, _)
\* Index of the closing quote of a string whose body starts at i, or 0.
ScanString(s, i) ==
  IF i > Len(s) THEN 0
  ELSE IF s[i] = "\"" THEN i
  ELSE IF s[i] = "\\" \/ s[i] = "\n" THEN 0
  ELSE ScanString(s, i + 1)

ParseNumber(s, i) ==
  LET j == IF s[i] = "0" THEN i + 1 ELSE ScanDigits(s, i)
  IN  ParseOk([t |-> "number", digits |-> SubSeq(s, i, j - 1)], j)

ParseString(s, i) ==
  LET q == ScanString(s, i + 1)
  IN  IF q = 0 THEN ParseFail
      ELSE ParseOk([t |-> "string", s |-> SubSeq(s, i + 1, q - 1)], q + 1)

ParseLiteral(s, i) ==
  IF OccursAt(s, <<"t", "r", "u", "e">>, i - 1)
    THEN ParseOk([t |-> "literal", name |-> "true"], i + 4)
  ELSE IF OccursAt(s, <<"f", "a", "l", "s", "e">>, i - 1)
    THEN ParseOk([t |-> "literal", name |-> "false"], i + 5)
  ELSE IF OccursAt(s, <<"n", "u", "l", "l">>, i - 1)
    THEN ParseOk([t |-> "literal", name |-> "null"], i + 4)
  ELSE ParseFail

RECURSIVE ParseValue(_, _)
RECURSIVE ParseItems(_, _, _)
RECURSIVE ParseMembers(_, _, _, _)

\* The value that starts at position i (no leading whitespace).
ParseValue(s, i) ==
  IF i > Len(s) THEN ParseFail
  ELSE IF s[i] = "{" THEN
    LET j == SkipWs(s, i + 1)
    IN  IF j <= Len(s) /\ s[j] = "}"
          THEN ParseOk([t |-> "object", keys |-> << >>, vals |-> << >>], j + 1)
          ELSE ParseMembers(s, j, << >>, << >>)
  ELSE IF s[i] = "[" THEN
    LET j == SkipWs(s, i + 1)
    IN  IF j <= Len(s) /\ s[j] = "]"
          THEN ParseOk([t |-> "array", items |-> << >>], j + 1)
          ELSE ParseItems(s, j, << >>)
  ELSE IF s[i] = "\"" THEN ParseString(s, i)
  ELSE IF s[i] \in Digits THEN ParseNumber(s, i)
  ELSE ParseLiteral(s, i)

\* The rest of an array: value (ws , ws value)* ws ]
ParseItems(s, i, acc) ==
  LET v == ParseValue(s, i)
  IN  IF ~v.ok THEN ParseFail
      ELSE LET j    == SkipWs(s, v.pos)
               acc2 == Append(acc, v.val)
           IN  IF j > Len(s) THEN ParseFail
               ELSE IF s[j] = "]" THEN ParseOk([t |-> "array", items |-> acc2], j + 1)
               ELSE IF s[j] = "," THEN ParseItems(s, SkipWs(s, j + 1), acc2)
               ELSE ParseFail

\* The rest of an object: string ws : ws value (ws , ws string ...)* ws }
ParseMembers(s, i, ks, vs) ==
  IF i > Len(s) \/ s[i] # "\"" THEN ParseFail
  ELSE
    LET k == ParseString(s, i)
    IN  IF ~k.ok THEN ParseFail
        ELSE
          LET c == SkipWs(s, k.pos)
          IN  IF c > Len(s) \/ s[c] # ":" THEN ParseFail
              ELSE
                LET v == ParseValue(s, SkipWs(s, c + 1))
                IN  IF ~v.ok THEN ParseFail
                    ELSE
                      LET j   == SkipWs(s, v.pos)
                          ks2 == Append(ks, k.val.s)
                          vs2 == Append(vs, v.val)
                      IN  IF j > Len(s) THEN ParseFail
                          ELSE IF s[j] = "}"
                            THEN ParseOk([t |-> "object", keys |-> ks2, vals |-> vs2], j + 1)
                          ELSE IF s[j] = ","
                            THEN ParseMembers(s, SkipWs(s, j + 1), ks2, vs2)
                          ELSE ParseFail

\* json.loads(text): [ok |-> TRUE, val |-> value] or, for JSONDecodeError,
\* [ok |-> FALSE].  Leading and trailing whitespace is skipped; any other
\* trailing character is "Extra data".
JsonLoads(text) ==
  LET v == ParseValue(text, SkipWs(text, 1))
  IN  IF ~v.ok THEN [ok |-> FALSE]
      ELSE IF SkipWs(text, v.pos) <= Len(text) THEN [ok |-> FALSE]
      ELSE [ok |-> TRUE, val |-> v.val]

-----------------------------------------------------------------------------
(* Vendor records.  A record is a dict; each value is None or Some(v).     *)
(* "description" and "subject" hold texts, "behaviors" a list of dicts,     *)
(* every other field a string.                                              *)

TextA == <<"a", "b">>
TextB == <<"c">>

\* Endpoint detections (CrowdStrike get_detections resources).
DetFull ==
  [detection_id |-> Some("d1"),
   behaviors |-> Some(<< [scenario |-> Some("Ransomware"), description |-> Some(TextA)] >>),
   max_severity_displayname |-> Some("High"),
   first_behavior |-> Some("t1")]
DetIdOnly == [detection_id |-> Some("d2")]
DetNoEntries ==
  [detection_id |-> Some("d3"), behaviors |-> Some(<< >>),
   max_severity_displayname |-> Some("Low")]
DetNullBehaviors == [detection_id |-> Some("d4"), behaviors |-> None]
DetBlankBehavior ==
  [detection_id |-> Some("d5"), behaviors |-> Some(<< [scenario |-> Some("Beacon")] >>),
   max_severity_displayname |-> Some("Critical")]
DetNullFields ==
  [detection_id |-> None,
   behaviors |-> Some(<< [scenario |-> None, description |-> None] >>),
   max_severity_displayname |-> None,
   first_behavior |-> None]
\* A description one character longer than the prompt summary keeps.
LongText == [k \in 1..201 |-> IF k <= 200 THEN "z" ELSE "!"]
DetLong ==
  [detection_id |-> Some("d6"),
   behaviors |-> Some(<< [scenario |-> Some("Exfiltration"), description |-> Some(LongText)] >>),
   max_severity_displayname |-> Some("High")]
DetectionPool ==
  {DetFull, DetIdOnly, DetNoEntries, DetNullBehaviors, DetBlankBehavior, DetNullFields}

\* Endpoint incidents (CrowdStrike get_incidents resources).
IncFull ==
  [incident_id |-> Some("i1"), name |-> Some("Lateral movement"),
   description |-> Some(TextB), state |-> Some("Medium"), start |-> Some("t2")]
IncIdOnly == [incident_id |-> Some("d1")]
IncNullDescription ==
  [incident_id |-> Some("i3"), name |-> None, description |-> None,
   state |-> Some("critical")]
IncidentPool == {IncFull, IncIdOnly, IncNullDescription}

\* Identity alerts (Microsoft Defender get_defender_alerts).
AlertFull ==
  [id |-> Some("a1"), title |-> Some("Risky sign-in"), description |-> Some(TextA),
   severity |-> Some("medium"), created_datetime |-> Some("t3")]
AlertIdOnly == [id |-> Some("a2")]
AlertUpper == [id |-> Some("a3"), severity |-> Some("HIGH")]
AlertNullSeverity == [id |-> Some("a4"), severity |-> None]
AlertPool == {AlertFull, AlertIdOnly, AlertUpper}

\* Email-security records (Proofpoint get_siem_events lists).
MsgUrl ==
  [GUID |-> Some("m1"), threatType |-> Some("url"), subject |-> Some(TextA),
   messageTime |-> Some("t4"), severity |-> Some("Low")]
MsgAttachment ==
  [GUID |-> Some("m2"), threatType |-> Some("attachment"),
   max_severity_displayname |-> Some("Medium")]
MsgText == [GUID |-> Some("m3"), threatType |-> Some("messageText"), subject |-> Some(TextB)]
MsgNoType == [GUID |-> Some("m4"), subject |-> None]
MsgNullType == [GUID |-> None, threatType |-> None]
MessagePool == {MsgUrl, MsgAttachment, MsgText, MsgNoType, MsgNullType}
ClickPool == {MsgUrl, MsgNoType}

-----------------------------------------------------------------------------
(* IncidentResponseAgent.aggregate_incidents                               *)

Ok(v) == [ok |-> TRUE, val |-> v, err |-> "none"]
Raise(e) == [ok |-> FALSE, val |-> << >>, err |-> e]

\* payload.get(key, []) on an adapter payload (the lists are never None).
ListOr(payload, key) == IF key \in DOMAIN payload THEN payload[key] ELSE << >>

\* detection.get('behaviors', [{}])[0]: the default list [{}] only replaces
\* an ABSENT key; None is not subscriptable and [] has no element 0.
FirstBehavior(detection) ==
  LET b == GetOr(detection, "behaviors", << << >> >>)
  IN  IF b = None THEN Raise("TypeError")
      ELSE IF b[1] = << >> THEN Raise("IndexError")
      ELSE Ok(b[1][1])

RawDataWithoutNulls(record) ==
  [k \in {f \in DOMAIN record : record[f] # None} |-> record[k]]

\* The value stored under 'raw_data': the vendor record itself.
RawData(record) == record

NormalizeDetection(detection) ==
  LET b == FirstBehavior(detection)
  IN  IF ~b.ok THEN b
      ELSE Ok([id          |-> Get(detection, "detection_id"),
               title       |-> GetOr(b.val, "scenario", "Unknown"),
               description |-> GetOr(b.val, "description", << >>),
               severity    |-> GetOr(detection, "max_severity_displayname", "Unknown"),
               source      |-> Some("CrowdStrike"),
               timestamp   |-> Get(detection, "first_behavior"),
               raw_data    |-> RawData(detection)])

NormalizeIncident(incident) ==
  [id          |-> Get(incident, "incident_id"),
   title       |-> GetOr(incident, "name", "Unnamed Incident"),
   description |-> GetOr(incident, "description", << >>),
   severity    |-> GetOr(incident, "state", "Unknown"),
   source      |-> Some("CrowdStrike"),
   timestamp   |-> Get(incident, "start"),
   raw_data    |-> RawData(incident)]

NormalizeAlert(alert) ==
  [id          |-> Get(alert, "id"),
   title       |-> GetOr(alert, "title", "Unknown Alert"),
   description |-> GetOr(alert, "description", << >>),
   severity    |-> GetOr(alert, "severity", "Unknown"),
   source      |-> Some("Microsoft Defender"),
   timestamp   |-> Get(alert, "created_datetime"),
   raw_data    |-> RawData(alert)]

HighValueThreatTypes == {"url", "attachment"}

\* msg.get('threatType') in ['url', 'attachment']
IsHighValue(msg) ==
  LET t == Get(msg, "threatType")
  IN  t # None /\ t[1] \in HighValueThreatTypes

\* 'severity': 'High'
EmailSeverity(msg) == Some("High")

NormalizeMessage(msg) ==
  [id          |-> Get(msg, "GUID"),
   title       |-> Some("Malicious Email Blocked: " \o Format(Get(msg, "threatType"))),
   description |-> GetOr(msg, "subject", << >>),
   severity    |-> EmailSeverity(msg),
   source      |-> Some("Proofpoint"),
   timestamp   |-> Get(msg, "messageTime"),
   raw_data    |-> RawData(msg)]

\* [f(x) for x in seq]
RECURSIVE MapSeq(_, _)
MapSeq(F(_), seq) ==
  IF seq = << >> THEN << >> ELSE <<F(Head(seq))>> \o MapSeq(F, Tail(seq))

\* [x for x in seq if P(x)]
RECURSIVE FilterSeq(_, _)
FilterSeq(P(_), seq) ==
  IF seq = << >> THEN << >>
  ELSE (IF P(Head(seq)) THEN <<Head(seq)>> ELSE << >>) \o FilterSeq(P, Tail(seq))

\* The first loop: stops at the first detection whose normalisation raises.
RECURSIVE DetectionLoop(_, _)
DetectionLoop(detections, acc) ==
  IF detections = << >> THEN Ok(acc)
  ELSE LET n == NormalizeDetection(Head(detections))
       IN  IF ~n.ok THEN n ELSE DetectionLoop(Tail(detections), Append(acc, n.val))

EmailListsAll == <<"messages_blocked", "messages_delivered", "clicks_blocked", "clicks_permitted">>

\* The lists of the email payload the last loop reads.
EmailLists == <<"messages_blocked">>

RECURSIVE EmailLoop(_, _)
EmailLoop(pp, lists) ==
  IF lists = << >> THEN << >>
  ELSE MapSeq(NormalizeMessage, FilterSeq(IsHighValue, ListOr(pp, Head(lists))))
       \o EmailLoop(pp, Tail(lists))

AggregateRejectingErrors(csd, csi, ms, pp) ==
  IF \E payload \in {csd, csi, ms, pp} : "error" \in DOMAIN payload
    THEN Raise("KeyError")
    ELSE Ok(DetectionLoop(ListOr(csd, "detections"), << >>).val
            \o MapSeq(NormalizeIncident, ListOr(csi, "incidents"))
            \o MapSeq(NormalizeAlert, ListOr(ms, "alerts"))
            \o EmailLoop(pp, EmailLists))

AggregateIncidents(csd, csi, ms, pp) ==
  LET d == DetectionLoop(ListOr(csd, "detections"), << >>)
  IN  IF ~d.ok THEN d
      ELSE Ok(d.val
              \o MapSeq(NormalizeIncident, ListOr(csi, "incidents"))
              \o MapSeq(NormalizeAlert, ListOr(ms, "alerts"))
              \o EmailLoop(pp, EmailLists))

-----------------------------------------------------------------------------
(* Adapter payloads handed to aggregate_incidents                          *)

MaxRecords == 2

SummaryLimit == 50

SeqsUpTo(S, n) == UNION {[1..k -> S] : k \in 0..n}

\* {"error": ..., "count": 0}
ErrorMarker == [error |-> "Unknown error", count |-> 0]

DetectionsPayload(list) == [detections |-> list, count |-> Len(list)]
IncidentsPayload(list) == [incidents |-> list, count |-> Len(list)]
AlertsPayload(list) == [alerts |-> list, count |-> Len(list)]
EmailPayload(mb, md, cb, cp) ==
  [clicks_permitted |-> cp, clicks_blocked |-> cb,
   messages_delivered |-> md, messages_blocked |-> mb,
   total_events |-> Len(cp) + Len(cb) + Len(md) + Len(mb)]

\* What an adapter can hand over for a list: the list, or, when it has no
\* records to report, also the error marker.
Handed(payload) ==
  IF payload.count = 0 THEN {payload, ErrorMarker} ELSE {payload}

\* The email adapter's error result has no count: {"error": ...}
EmailErrorMarker == [error |-> "Unknown error"]

HandedEmail(payload) ==
  IF payload.total_events = 0 THEN {payload, EmailErrorMarker} ELSE {payload}

\* Every combination of payloads that holds at most MaxRecords vendor records.
BoundedPayloads ==
  UNION {
   UNION {
    UNION {
     UNION {
      UNION {
       UNION {
        UNION {
         { <<a, b, c, e>> :
             a \in Handed(DetectionsPayload(d)),
             b \in Handed(IncidentsPayload(i)),
             c \in Handed(AlertsPayload(al)),
             e \in HandedEmail(EmailPayload(mb, md, cb, cp)) }
         : cp \in SeqsUpTo(ClickPool,
                    MaxRecords - Len(d) - Len(i) - Len(al) - Len(mb) - Len(md) - Len(cb)) }
        : cb \in SeqsUpTo(ClickPool, MaxRecords - Len(d) - Len(i) - Len(al) - Len(mb) - Len(md)) }
       : md \in SeqsUpTo(MessagePool, MaxRecords - Len(d) - Len(i) - Len(al) - Len(mb)) }
      : mb \in SeqsUpTo(MessagePool, MaxRecords - Len(d) - Len(i) - Len(al)) }
     : al \in SeqsUpTo(AlertPool, MaxRecords - Len(d) - Len(i)) }
    : i \in SeqsUpTo(IncidentPool, MaxRecords - Len(d)) }
   : d \in SeqsUpTo(DetectionPool, MaxRecords) }

NoEmail == EmailPayload(<< >>, << >>, << >>, << >>)

\* One endpoint detection (High), one identity alert (medium), one blocked
\* message with an attachment.
EndToEnd ==
  <<DetectionsPayload(<<DetFull>>), IncidentsPayload(<< >>),
    AlertsPayload(<<AlertFull>>), EmailPayload(<<MsgAttachment>>, << >>, << >>, << >>)>>

Quiet ==
  <<DetectionsPayload(<< >>), IncidentsPayload(<< >>), AlertsPayload(<< >>), NoEmail>>

\* Every severity spelling of the pools, one record twice.
Mixed ==
  <<DetectionsPayload(<<DetFull, DetBlankBehavior, DetIdOnly, DetFull>>),
    IncidentsPayload(<<IncFull, IncIdOnly>>),
    AlertsPayload(<<AlertFull, AlertUpper, AlertIdOnly, AlertNullSeverity>>),
    EmailPayload(<<MsgUrl, MsgText>>, <<MsgAttachment>>, << >>, << >>)>>

NullDescriptions ==
  <<DetectionsPayload(<<DetFull>>), IncidentsPayload(<<IncNullDescription>>),
    AlertsPayload(<< >>), NoEmail>>

NullDetection ==
  <<DetectionsPayload(<<DetNullFields>>), ErrorMarker, AlertsPayload(<<AlertUpper>>), NoEmail>>

\* More incidents than the prompt summary takes, one of them with a
\* description longer than the summary keeps.
Burst ==
  <<DetectionsPayload([k \in 1..SummaryLimit |->
                         IF k = 1 THEN DetLong
                         ELSE IF k % 2 = 0 THEN DetFull ELSE DetBlankBehavior]),
    IncidentsPayload(<< >>), AlertsPayload(<<AlertFull, AlertIdOnly>>), NoEmail>>

\* The payloads whose aggregate is analysed and investigated further.
ScenarioPayloads == {EndToEnd, Quiet, Mixed, NullDescriptions, NullDetection, Burst}

Payloads == BoundedPayloads \cup ScenarioPayloads

-----------------------------------------------------------------------------
(* The model capability: anthropic.messages.create                         *)

MaxCompletionLen == 3

Texts(A, n) == UNION {[1..k -> A] : k \in 0..n}

ModelError == [kind |-> "error"]
Completion(text) == [kind |-> "text", text |-> text]

JsonAlphabet == {"{", "}", "[", "]", "1", "x"}

\* {"high_priority": [], "medium_priority": [], "low_priority": [], "campaigns": []}
FullAnalysisText ==
  <<"{", "\"", "h", "i", "g", "h", "_", "p", "r", "i", "o", "r", "i", "t", "y", "\"",
    ":", " ", "[", "]", ",", " ", "\"", "m", "e", "d", "i", "u", "m", "_", "p", "r",
    "i", "o", "r", "i", "t", "y", "\"", ":", " ", "[", "]", ",", " ", "\"", "l", "o",
    "w", "_", "p", "r", "i", "o", "r", "i", "t", "y", "\"", ":", " ", "[", "]", ",",
    " ", "\"", "c", "a", "m", "p", "a", "i", "g", "n", "s", "\"", ":", " ", "[", "]",
    "}">>

\* The same object inside prose.
WrappedAnalysisText ==
  <<"H", "e", "r", "e", ":", " ", "{", "\"", "h", "i", "g", "h", "_", "p", "r", "i",
    "o", "r", "i", "t", "y", "\"", ":", " ", "[", "]", ",", " ", "\"", "m", "e", "d",
    "i", "u", "m", "_", "p", "r", "i", "o", "r", "i", "t", "y", "\"", ":", " ", "[",
    "]", ",", " ", "\"", "l", "o", "w", "_", "p", "r", "i", "o", "r", "i", "t", "y",
    "\"", ":", " ", "[", "]", ",", " ", "\"", "c", "a", "m", "p", "a", "i", "g", "n",
    "s", "\"", ":", " ", "[", "]", "}", "\n", "D", "o", "n", "e", ".">>

\* An object that lacks three of the four keys.
PartialAnalysisText ==
  <<"{", "\"", "h", "i", "g", "h", "_", "p", "r", "i", "o", "r", "i", "t", "y", "\"",
    ":", " ", "[", "{", "\"", "i", "d", "\"", ":", " ", "\"", "d", "1", "\"", "}",
    "]", "}">>

\* Prose with braces that is no JSON.
BracedProseText ==
  <<"s", "e", "e", " ", "{", "a", "}", " ", "a", "n", "d", " ", "{", "b", "}">>

\* A one-hypothesis array inside prose.
HypothesesText ==
  <<"S", "u", "r", "e", ":", " ", "[", "{", "\"", "t", "i", "t", "l", "e", "\"", ":",
    " ", "\"", "T", "\"", ",", " ", "\"", "p", "r", "i", "o", "r", "i", "t", "y",
    "\"", ":", " ", "\"", "L", "o", "w", "\"", "}", "]", " ", "o", "k">>

\* Prose with brackets that is no JSON.
BracketedProseText ==
  <<"[", "1", "]", " ", "a", "n", "d", " ", "[", "2", "]">>

JsonCompletions ==
  Texts(JsonAlphabet, MaxCompletionLen)
    \cup {FullAnalysisText, WrappedAnalysisText, PartialAnalysisText, BracedProseText,
          HypothesesText, BracketedProseText}

JsonOutcomes == {ModelError} \cup {Completion(t) : t \in JsonCompletions}

SummaryOutcomes == {ModelError, Completion(<< >>), Completion(TextA), Completion(TextB)}

-----------------------------------------------------------------------------
(* IncidentResponseAgent.analyze_incidents                                 *)

DescriptionLimit == 200

\* One entry of _prepare_incident_summary; inc.get('description', '')[:200]
\* raises TypeError when the description is None.
SummaryEntry(inc) ==
  LET d == GetOr(inc, "description", << >>)
  IN  IF d = None THEN Raise("TypeError")
      ELSE Ok([id          |-> Get(inc, "id"),
               title       |-> Get(inc, "title"),
               description |-> Some(SliceTo(d[1], DescriptionLimit)),
               severity    |-> Get(inc, "severity"),
               source      |-> Get(inc, "source"),
               timestamp   |-> Get(inc, "timestamp")])

RECURSIVE SummaryLoop(_, _)
SummaryLoop(incs, acc) ==
  IF incs = << >> THEN Ok(acc)
  ELSE LET e == SummaryEntry(Head(incs))
       IN  IF ~e.ok THEN e ELSE SummaryLoop(Tail(incs), Append(acc, e.val))

PrepareIncidentSummaryUncut(incs) == SummaryLoop(incs, << >>)

\* _prepare_incident_summary(incidents)
PrepareIncidentSummary(incs) == SummaryLoop(SliceTo(incs, SummaryLimit), << >>)

HighSeverity == {"Critical", "High", "critical", "high"}
MediumSeverity == {"Medium", "medium"}

\* inc.get('severity') in names
SeverityIn(inc, names) ==
  LET v == Get(inc, "severity") IN v # None /\ v[1] \in names

IsHigh(inc) == SeverityIn(inc, HighSeverity)
IsMedium(inc) == SeverityIn(inc, MediumSeverity)
IsLowStrict(inc) == SeverityIn(inc, {"Low", "low"})
IsLow(inc) == ~SeverityIn(inc, HighSeverity \cup MediumSeverity)

BasicPrioritizationTitleCase(incs) ==
  [high_priority   |-> FilterSeq(LAMBDA inc : SeverityIn(inc, {"Critical", "High"}), incs),
   medium_priority |-> FilterSeq(LAMBDA inc : SeverityIn(inc, {"Medium"}), incs),
   low_priority    |-> FilterSeq(LAMBDA inc : ~SeverityIn(inc, {"Critical", "High", "Medium"}),
                                 incs),
   campaigns       |-> << >>]

BasicPrioritizationLowOnly(incs) ==
  [high_priority   |-> FilterSeq(IsHigh, incs),
   medium_priority |-> FilterSeq(IsMedium, incs),
   low_priority    |-> FilterSeq(IsLowStrict, incs),
   campaigns       |-> << >>]

\* _basic_prioritization(incidents)
BasicPrioritization(incs) ==
  [high_priority   |-> FilterSeq(IsHigh, incs),
   medium_priority |-> FilterSeq(IsMedium, incs),
   low_priority    |-> FilterSeq(IsLow, incs),
   campaigns       |-> << >>]

\* json.loads(analysis_text[json_start:json_end])
AnalysisJson(text) ==
  LET json_start == Find(text, <<"{">>)
      json_end   == RFind(text, <<"}">>) + 1
  IN  JsonLoads(Slice(text, json_start, json_end))

Returned(v) == [pc |-> "returned", result |-> v]

\* The fallback run on the prompt summary instead of the incidents.
AnalyzeFallbackOnSummary(incs) ==
  [pc |-> "returned", result |-> BasicPrioritization(PrepareIncidentSummary(incs).val)]

AnalyzeRetry(incs) == [pc |-> "call_model", result |-> << >>]

\* except Exception: return self._basic_prioritization(incidents)
AnalyzeFallback(incs) == Returned(BasicPrioritization(incs))

AnalyzeEmptyOnBadJson(incs, outcome) ==
  IF outcome.kind = "error" THEN AnalyzeFallback(incs)
  ELSE LET a == AnalysisJson(outcome.text)
       IN  IF a.ok THEN Returned(a.val)
           ELSE Returned([high_priority |-> << >>, medium_priority |-> << >>,
                          low_priority |-> << >>, campaigns |-> << >>])

\* The try block of analyze_incidents, from the model call on.
AnalyzeHandle(incs, outcome) ==
  IF outcome.kind = "error" THEN AnalyzeFallback(incs)
  ELSE LET a == AnalysisJson(outcome.text)
       IN  IF a.ok THEN Returned(a.val) ELSE AnalyzeFallback(incs)

-----------------------------------------------------------------------------
(* IncidentResponseAgent.investigate_incident                              *)

\* "Investigation summary unavailable."
SummaryUnavailable ==
  <<"I", "n", "v", "e", "s", "t", "i", "g", "a", "t", "i", "o", "n", " ", "s", "u",
    "m", "m", "a", "r", "y", " ", "u", "n", "a", "v", "a", "i", "l", "a", "b", "l",
    "e", ".">>

NewInvestigation(incident) ==
  [incident_id     |-> Get(incident, "id"),
   timeline        |-> << >>,
   related_events  |-> << >>,
   threat_intel    |-> << >>,
   affected_assets |-> << >>,
   ai_summary      |-> << >>]

BuildTimelineEmpty(incident) == << >>

\* _build_timeline(incident)
BuildTimeline(incident) ==
  << [timestamp   |-> Get(incident, "timestamp"),
      description |-> "Incident detected: " \o Format(Get(incident, "title")),
      source      |-> Get(incident, "source"),
      indicators  |-> << >>] >>

\* _find_related_events(incident)
FindRelatedEvents(incident) == << >>

\* _get_threat_intelligence(incident)
GetThreatIntelligence(incident) ==
  [actor |-> "Unknown", ttps |-> << >>, malware_family |-> "Unknown"]

\* _extract_affected_assets(incident)
ExtractAffectedAssets(incident) == [hosts |-> << >>, users |-> << >>]

SummaryBlankOnFailure(outcome) ==
  IF outcome.kind = "error" THEN Ok(<< >>) ELSE Ok(outcome.text)

SummaryOrRaise(outcome) ==
  IF outcome.kind = "error" THEN Raise("APIError") ELSE Ok(outcome.text)

\* The try block of _generate_investigation_summary.
GenerateInvestigationSummary(outcome) ==
  IF outcome.kind = "error" THEN Ok(SummaryUnavailable) ELSE Ok(outcome.text)

-----------------------------------------------------------------------------
(* ThreatHuntingEngine.generate_hunting_hypotheses                         *)

FindingsLimit == 3000

\* Findings, each given by its JSON encoding json.dumps(findings, indent=2,
\* default=str).
NoFindings == <<"{", "}">>
SomeFindings ==
  <<"{", "\n", " ", " ", "\"", "a", "n", "o", "m", "a", "l", "i", "e", "s", "\"",
    ":", " ", "2", "\n", "}">>
LongFindings == <<"\"">> \o [k \in 1..FindingsLimit |-> "f"] \o <<"\"">>
FindingsPool == {NoFindings, SomeFindings, LongFindings}

\* _default_hypotheses()
DefaultHypotheses ==
  << [title               |-> "Suspicious User Behavior Pattern",
      priority            |-> "High",
      mitre_tactics       |-> <<"Initial Access", "Credential Access">>,
      description         |-> "Hunt for users with anomalous login patterns",
      hunting_steps       |-> <<"Review users with failed login attempts",
                                "Check for logins from unusual locations",
                                "Correlate with threat intelligence">>,
      expected_indicators |-> <<"Multiple failed logins followed by success",
                                "Logins from geographically distant locations",
                                "Logins at unusual hours">>] >>

HypothesesEmpty == [pc |-> "returned", result |-> << >>]

HypothesesFallback == Returned(DefaultHypotheses)

\* The try block of generate_hunting_hypotheses, from the model call on.  A
\* parsed array is returned as the list of its items, whatever they are.
HypothesesHandle(outcome) ==
  IF outcome.kind = "error" THEN HypothesesFallback
  ELSE LET response_text == outcome.text
           json_start    == Find(response_text, <<"[">>)
           json_end      == RFind(response_text, <<"]">>) + 1
       IN  IF json_start >= 0 /\ json_end > json_start
             THEN LET h == JsonLoads(Slice(response_text, json_start, json_end))
                  IN  IF h.ok THEN Returned(h.val.items) ELSE HypothesesFallback
             ELSE HypothesesFallback

-----------------------------------------------------------------------------
(* ThreatHuntingEngine.execute_hunt                                        *)

MaxSegments == 3

SummaryMarker == <<"S", "U", "M", "M", "A", "R", "Y", ":">>
ActionsMarker == <<"A", "C", "T", "I", "O", "N", "S", ":">>

\* "Hunt execution completed. Manual review recommended."
HuntFallbackSummary ==
  <<"H", "u", "n", "t", " ", "e", "x", "e", "c", "u", "t", "i", "o", "n", " ", "c",
    "o", "m", "p", "l", "e", "t", "e", "d", ".", " ", "M", "a", "n", "u", "a", "l",
    " ", "r", "e", "v", "i", "e", "w", " ", "r", "e", "c", "o", "m", "m", "e", "n",
    "d", "e", "d", ".">>

\* "SUMMARY: X\n\nACTIONS:\n- A1\n- A2"
HuntExampleText ==
  <<"S", "U", "M", "M", "A", "R", "Y", ":", " ", "X", "\n", "\n", "A", "C", "T", "I",
    "O", "N", "S", ":", "\n", "-", " ", "A", "1", "\n", "-", " ", "A", "2">>

HuntSegments == {SummaryMarker, ActionsMarker, <<"X">>, <<" ">>, <<"\n">>, <<"-">>}

RECURSIVE Concat(_)
Concat(parts) == IF parts = << >> THEN << >> ELSE Head(parts) \o Concat(Tail(parts))

HuntCompletions ==
  {Concat(parts) : parts \in Texts(HuntSegments, MaxSegments)} \cup {HuntExampleText}

HuntOutcomes == {ModelError} \cup {Completion(t) : t \in HuntCompletions}

BareHypothesis == [title |-> "T"]
HypothesisPool == {DefaultHypotheses[1], BareHypothesis}

\* The characters str.strip() removes.
StripChars == {" ", "\n", "\t", "\r"}

RECURSIVE LStrip(_, _)
LStrip(text, chars) ==
  IF text # << >> /\ Head(text) \in chars THEN LStrip(Tail(text), chars) ELSE text

RECURSIVE RStrip(_, _)
RStrip(text, chars) ==
  IF text # << >> /\ text[Len(text)] \in chars
    THEN RStrip(SubSeq(text, 1, Len(text) - 1), chars)
    ELSE text

\* text.strip()
Strip(text) == RStrip(LStrip(text, StripChars), StripChars)

\* text.split('\n')
RECURSIVE SplitLines(_, _, _)
SplitLines(text, cur, acc) ==
  IF text = << >> THEN Append(acc, cur)
  ELSE IF Head(text) = "\n" THEN SplitLines(Tail(text), << >>, Append(acc, cur))
  ELSE SplitLines(Tail(text), Append(cur, Head(text)), acc)

\* line.strip().startswith('-')
IsActionLine(line) == LET l == Strip(line) IN l # << >> /\ Head(l) = "-"

\* line.strip().lstrip('-').strip()
ActionOf(line) == Strip(LStrip(Strip(line), {"-"}))

NewHuntResults ==
  [status |-> "completed", evidence |-> << >>, ai_summary |-> << >>,
   recommended_actions |-> << >>]

HuntReraise == [pc |-> "raised", result |-> NewHuntResults]

\* except Exception: results['ai_summary'] = "Hunt execution completed. ..."
HuntFallback == Returned([NewHuntResults EXCEPT !.ai_summary = HuntFallbackSummary])

\* The parse with the dash left on each action line.
HuntHandleKeepDash(outcome) ==
  IF outcome.kind = "error" THEN HuntFallback
  ELSE
    LET response_text == outcome.text
        summary_start == Find(response_text, SummaryMarker) + 8
        actions_start == Find(response_text, ActionsMarker)
    IN  IF Contains(response_text, SummaryMarker)
          THEN Returned([NewHuntResults EXCEPT
                 !.ai_summary = Strip(Slice(response_text, summary_start, actions_start)),
                 !.recommended_actions =
                   IF actions_start > 0
                     THEN MapSeq(Strip,
                            FilterSeq(IsActionLine,
                              SplitLines(SliceFrom(response_text, actions_start + 8),
                                         << >>, << >>)))
                     ELSE << >>])
          ELSE Returned(NewHuntResults)

\* A completion without 'SUMMARY:' taken as a failure.
HuntHandleMarkersRequired(outcome) ==
  IF outcome.kind = "error" \/ ~Contains(outcome.text, SummaryMarker)
    THEN HuntFallback
    ELSE Returned([NewHuntResults EXCEPT
           !.ai_summary = Strip(Slice(outcome.text, Find(outcome.text, SummaryMarker) + 8,
                                      Find(outcome.text, ActionsMarker)))])

\* The try block of execute_hunt, from the model call on.
HuntHandle(outcome) ==
  IF outcome.kind = "error" THEN HuntFallback
  ELSE
    LET response_text == outcome.text
    IN  IF Contains(response_text, SummaryMarker)
          THEN
            LET summary_start == Find(response_text, SummaryMarker) + 8
                actions_start == Find(response_text, ActionsMarker)
                summary == Strip(Slice(response_text, summary_start, actions_start))
                actions ==
                  IF actions_start > 0
                    THEN MapSeq(ActionOf,
                           FilterSeq(IsActionLine,
                             SplitLines(SliceFrom(response_text, actions_start + 8),
                                        << >>, << >>)))
                    ELSE << >>
            IN  Returned([NewHuntResults EXCEPT !.ai_summary = summary,
                                                !.recommended_actions = actions])
          ELSE Returned(NewHuntResults)

-----------------------------------------------------------------------------
(* IncidentResponseAgent.generate_response_plan, execute_response_actions  *)

MaxActions == 2

\* generate_response_plan(incident, investigation, playbook)
GenerateResponsePlan ==
  [containment |-> << [description  |-> "Isolate affected hosts",
                       impact       |-> "High - will disconnect hosts from network",
                       risk_level   |-> "Medium",
                       can_automate |-> "False"] >>,
   eradication |-> << >>,
   recovery    |-> << >>]

\* Response actions; can_automate holds a Python literal.
ActionPool ==
  {GenerateResponsePlan.containment[1],
   [description |-> "Block sender", can_automate |-> "True"],
   [description |-> "Reset password"],
   [description |-> "Notify owner", can_automate |-> "None"],
   [description |-> "Quarantine message", can_automate |-> "'yes'"],
   [can_automate |-> "True"]}

\* bool(value) of a Python literal.
Truthy(literal) == literal \notin {"False", "None", "''", "0", "[]", "{}"}

ActionResultBothNeeded(action, auto_approve_safe_actions) ==
  IF "description" \notin DOMAIN action THEN Raise("KeyError")
  ELSE IF Truthy(FormatKey(action, "can_automate")) /\ auto_approve_safe_actions
    THEN Ok([action  |-> action.description, success |-> TRUE,
             message |-> "Action completed successfully (simulated)"])
    ELSE Ok([action  |-> action.description, success |-> FALSE,
             message |-> "Action requires manual approval"])

\* One pass of the loop; action['description'] raises KeyError when the key
\* is absent.
ActionResult(action, auto_approve_safe_actions) ==
  IF "description" \notin DOMAIN action THEN Raise("KeyError")
  ELSE IF Truthy(FormatKey(action, "can_automate")) \/ auto_approve_safe_actions
    THEN Ok([action  |-> action.description, success |-> TRUE,
             message |-> "Action completed successfully (simulated)"])
    ELSE Ok([action  |-> action.description, success |-> FALSE,
             message |-> "Action requires manual approval"])

\* execute_response_actions(actions, auto_approve_safe_actions)
RECURSIVE ExecuteResponseActions(_, _, _)
ExecuteResponseActions(actions, auto_approve_safe_actions, results) ==
  IF actions = << >> THEN Ok(results)
  ELSE LET r == ActionResult(Head(actions), auto_approve_safe_actions)
       IN  IF ~r.ok THEN r
           ELSE ExecuteResponseActions(Tail(actions), auto_approve_safe_actions,
                                       Append(results, r.val))

-----------------------------------------------------------------------------
(* State                                                                   *)

VARIABLES
  op,             \* the operation invoked last
  pc,             \* its position: "idle", a step name, "returned", "raised"
  err,            \* the exception class that left it, when pc = "raised"
  cs_detections,  \* the four payloads the caller passed to aggregate_incidents
  cs_incidents,
  ms_alerts,
  pp_events,
  incidents,      \* the list aggregate_incidents returned
  args,           \* the arguments of the operation in progress
  prompt,         \* the data serialised into the model prompt
  modelCalls,     \* anthropic.messages.create calls issued by the operation
  response,       \* what the last model call did
  investigation,  \* the dict investigate_incident fills
  result,         \* the value the operation returned
  tasks,          \* concurrent invocations: the frame (locals, position) of each
  loop            \* the scheduler that runs them and the task it is running

seqVars == <<op, pc, err, cs_detections, cs_incidents, ms_alerts, pp_events, incidents,
             args, prompt, modelCalls, response, investigation, result>>
taskVars == <<tasks, loop>>
vars == <<seqVars, taskVars>>

payloadVars == <<cs_detections, cs_incidents, ms_alerts, pp_events>>
callVars == <<args, prompt, modelCalls, response, investigation, result>>

NoResponse == [kind |-> "none"]

\* One caller, one operation at a time.
Init ==
  /\ tasks = << >>
  /\ loop = [kind |-> "none", holder |-> 0]
  /\ op = "none"
  /\ pc = "idle"
  /\ err = "none"
  /\ cs_detections = << >>
  /\ cs_incidents = << >>
  /\ ms_alerts = << >>
  /\ pp_events = << >>
  /\ incidents = << >>
  /\ args = << >>
  /\ prompt = << >>
  /\ modelCalls = 0
  /\ response = NoResponse
  /\ investigation = << >>
  /\ result = << >>

\* The vendor adapters hand their payloads to the caller.
Collect ==
  /\ pc = "idle"
  /\ \E p \in Payloads :
       /\ cs_detections' = p[1]
       /\ cs_incidents' = p[2]
       /\ ms_alerts' = p[3]
       /\ pp_events' = p[4]
  /\ op' = "collect"
  /\ pc' = "returned"
  /\ UNCHANGED <<taskVars, err, incidents, callVars>>

\* aggregate_incidents(cs_detections, cs_incidents, ms_alerts, pp_events)
Aggregate ==
  /\ op = "collect"
  /\ pc = "returned"
  /\ LET r == AggregateIncidents(cs_detections, cs_incidents, ms_alerts, pp_events)
     IN  /\ op' = "aggregate"
         /\ pc' = IF r.ok THEN "returned" ELSE "raised"
         /\ err' = r.err
         /\ incidents' = r.val
  /\ UNCHANGED <<taskVars, payloadVars, callVars>>

\* The payloads of the last aggregate call are one of the scenarios.
InScenario ==
  /\ op = "aggregate"
  /\ pc = "returned"
  /\ <<cs_detections, cs_incidents, ms_alerts, pp_events>> \in ScenarioPayloads

\* analyze_incidents(incidents) up to the model call: the summary and the
\* prompt are built before the try block.
AnalyzeBegin ==
  /\ InScenario
  /\ LET s == PrepareIncidentSummary(incidents)
     IN  /\ op' = "analyze"
         /\ args' = [incidents |-> incidents]
         /\ pc' = IF s.ok THEN "call_model" ELSE "raised"
         /\ err' = s.err
         /\ prompt' = s.val
  /\ modelCalls' = 0
  /\ response' = NoResponse
  /\ UNCHANGED <<taskVars, payloadVars, incidents, investigation, result>>

\* The model call of analyze_incidents and everything after it.
AnalyzeModelCall ==
  /\ op = "analyze"
  /\ pc = "call_model"
  /\ \E outcome \in JsonOutcomes :
       LET r == AnalyzeHandle(args.incidents, outcome)
       IN  /\ response' = outcome
           /\ pc' = r.pc
           /\ result' = r.result
  /\ modelCalls' = modelCalls + 1
  /\ UNCHANGED <<taskVars, op, err, payloadVars, incidents, args, prompt, investigation>>

Range(seq) == {seq[k] : k \in 1..Len(seq)}

\* investigate_incident(incident, include_timeline, include_related_events,
\* include_threat_intel): the investigation dict is created.
InvestigateBegin ==
  /\ InScenario
  /\ \E incident \in Range(incidents), t \in BOOLEAN, r \in BOOLEAN, i \in BOOLEAN :
       /\ args' = [incident |-> incident, include_timeline |-> t,
                   include_related_events |-> r, include_threat_intel |-> i]
       /\ investigation' = NewInvestigation(incident)
  /\ op' = "investigate"
  /\ pc' = "timeline"
  /\ modelCalls' = 0
  /\ response' = NoResponse
  /\ prompt' = << >>
  /\ UNCHANGED <<taskVars, err, payloadVars, incidents, result>>

\* The timeline step taken whatever include_timeline says.
InvestigateTimelineUnconditional ==
  /\ op = "investigate"
  /\ pc = "timeline"
  /\ investigation' = [investigation EXCEPT !.timeline = BuildTimeline(args.incident)]
  /\ pc' = "related_events"
  /\ UNCHANGED <<taskVars, op, err, payloadVars, incidents, args, prompt, modelCalls, response, result>>

InvestigateTimeline ==
  /\ op = "investigate"
  /\ pc = "timeline"
  /\ investigation' =
       IF args.include_timeline
         THEN [investigation EXCEPT !.timeline = BuildTimeline(args.incident)]
         ELSE investigation
  /\ pc' = "related_events"
  /\ UNCHANGED <<taskVars, op, err, payloadVars, incidents, args, prompt, modelCalls, response, result>>

InvestigateRelatedEvents ==
  /\ op = "investigate"
  /\ pc = "related_events"
  /\ investigation' =
       IF args.include_related_events
         THEN [investigation EXCEPT !.related_events = FindRelatedEvents(args.incident)]
         ELSE investigation
  /\ pc' = "threat_intel"
  /\ UNCHANGED <<taskVars, op, err, payloadVars, incidents, args, prompt, modelCalls, response, result>>

InvestigateThreatIntel ==
  /\ op = "investigate"
  /\ pc = "threat_intel"
  /\ investigation' =
       IF args.include_threat_intel
         THEN [investigation EXCEPT !.threat_intel = GetThreatIntelligence(args.incident)]
         ELSE investigation
  /\ pc' = "affected_assets"
  /\ UNCHANGED <<taskVars, op, err, payloadVars, incidents, args, prompt, modelCalls, response, result>>

InvestigateAffectedAssets ==
  /\ op = "investigate"
  /\ pc = "affected_assets"
  /\ investigation' =
       [investigation EXCEPT !.affected_assets = ExtractAffectedAssets(args.incident)]
  /\ pc' = "summary"
  /\ UNCHANGED <<taskVars, op, err, payloadVars, incidents, args, prompt, modelCalls, response, result>>

\* The summary requested for the investigation as it was before the gather
\* steps.
InvestigateSummaryOfInitial ==
  /\ op = "investigate"
  /\ pc = "summary"
  /\ prompt' = NewInvestigation(args.incident)
  /\ modelCalls' = modelCalls + 1
  /\ \E outcome \in SummaryOutcomes :
       /\ response' = outcome
       /\ investigation' =
            [investigation EXCEPT !.ai_summary = GenerateInvestigationSummary(outcome).val]
       /\ result' = investigation'
  /\ pc' = "returned"
  /\ UNCHANGED <<taskVars, op, err, payloadVars, incidents, args>>

\* _generate_investigation_summary(investigation), the assignment of its
\* result to investigation['ai_summary'], and the return.
InvestigateSummary ==
  /\ op = "investigate"
  /\ pc = "summary"
  /\ prompt' = investigation
  /\ modelCalls' = modelCalls + 1
  /\ \E outcome \in SummaryOutcomes :
       LET s == GenerateInvestigationSummary(outcome)
       IN  /\ response' = outcome
           /\ pc' = IF s.ok THEN "returned" ELSE "raised"
           /\ err' = s.err
           /\ investigation' =
                IF s.ok THEN [investigation EXCEPT !.ai_summary = s.val] ELSE investigation
           /\ result' = IF s.ok THEN investigation' ELSE result
  /\ UNCHANGED <<taskVars, op, payloadVars, incidents, args>>

\* generate_hunting_hypotheses(findings) up to the model call.
HypothesesBegin ==
  /\ pc = "idle"
  /\ \E findings \in FindingsPool :
       /\ args' = [findings |-> findings]
       /\ prompt' = SliceTo(findings, FindingsLimit)
  /\ op' = "generate_hypotheses"
  /\ pc' = "call_model"
  /\ UNCHANGED <<taskVars, err, payloadVars, incidents, modelCalls, response, investigation, result>>

HypothesesModelCall ==
  /\ op = "generate_hypotheses"
  /\ pc = "call_model"
  /\ \E outcome \in JsonOutcomes :
       LET r == HypothesesHandle(outcome)
       IN  /\ response' = outcome
           /\ pc' = r.pc
           /\ result' = r.result
  /\ modelCalls' = modelCalls + 1
  /\ UNCHANGED <<taskVars, op, err, payloadVars, incidents, args, prompt, investigation>>

\* execute_hunt(hypothesis, data_sources) up to the model call.
HuntBegin ==
  /\ pc = "idle"
  /\ \E hypothesis \in HypothesisPool :
       /\ args' = [hypothesis |-> hypothesis]
       /\ prompt' = [title |-> FormatKey(hypothesis, "title"),
                     description |-> FormatKey(hypothesis, "description")]
  /\ op' = "execute_hunt"
  /\ pc' = "call_model"
  /\ result' = NewHuntResults
  /\ UNCHANGED <<taskVars, err, payloadVars, incidents, modelCalls, response, investigation>>

HuntModelCall ==
  /\ op = "execute_hunt"
  /\ pc = "call_model"
  /\ \E outcome \in HuntOutcomes :
       LET r == HuntHandle(outcome)
       IN  /\ response' = outcome
           /\ pc' = r.pc
           /\ result' = r.result
  /\ modelCalls' = modelCalls + 1
  /\ UNCHANGED <<taskVars, op, err, payloadVars, incidents, args, prompt, investigation>>

\* execute_response_actions(actions, auto_approve_safe_actions)
ExecuteActions ==
  /\ pc = "idle"
  /\ \E actions \in SeqsUpTo(ActionPool, MaxActions), auto \in BOOLEAN :
       LET r == ExecuteResponseActions(actions, auto, << >>)
       IN  /\ args' = [actions |-> actions, auto_approve_safe_actions |-> auto]
           /\ pc' = IF r.ok THEN "returned" ELSE "raised"
           /\ err' = r.err
           /\ result' = r.val
  /\ op' = "execute_response_actions"
  /\ UNCHANGED <<taskVars, payloadVars, incidents, prompt, modelCalls, response, investigation>>

Next ==
  \/ Collect
  \/ Aggregate
  \/ AnalyzeBegin
  \/ AnalyzeModelCall
  \/ InvestigateBegin
  \/ InvestigateTimeline
  \/ InvestigateRelatedEvents
  \/ InvestigateThreatIntel
  \/ InvestigateAffectedAssets
  \/ InvestigateSummary
  \/ HypothesesBegin
  \/ HypothesesModelCall
  \/ HuntBegin
  \/ HuntModelCall
  \/ ExecuteActions

Spec == Init /\ [][Next]_vars

-----------------------------------------------------------------------------
(* Two invocations of investigate_incident / execute_hunt on one agent and  *)
(* one engine.  Each invocation has a frame: its arguments, its position,   *)
(* the dict it builds (a local of the coroutine), the outcome of its model  *)
(* call and the value it returned; overlapped records that the invocation   *)
(* started while the other one was between its first statement and return.  *)
(*                                                                          *)
(* loop.kind = "event_loop": both coroutines are tasks of one asyncio event *)
(* loop.  A task keeps the loop until it awaits something that suspends;    *)
(* the helpers awaited by investigate_incident never suspend and            *)
(* self.anthropic.messages.create is a plain blocking call, so a task       *)
(* keeps the loop from its first statement to its return.                   *)
(* loop.kind = "preemptive": each invocation is driven by a thread of its   *)
(* own, and the two interleave at every statement.                          *)

Tasks == {1, 2}

PendingFrame ==
  [call |-> [kind |-> "none"], pc |-> "pending", data |-> << >>,
   response |-> NoResponse, result |-> << >>, overlapped |-> FALSE]

\* The calls the two invocations are made with.
TaskCalls ==
  {[kind |-> "investigate", incident |-> incident, include_timeline |-> f,
    include_related_events |-> f, include_threat_intel |-> f] :
      incident \in Range(AggregateIncidents(EndToEnd[1], EndToEnd[2], EndToEnd[3],
                                            NoEmail).val),
      f \in BOOLEAN}
    \cup {[kind |-> "execute_hunt", hypothesis |-> h] : h \in HypothesisPool}

TaskOutcomes(kind) ==
  IF kind = "investigate" THEN SummaryOutcomes
  ELSE {ModelError, Completion(HuntExampleText)}

\* d[key] = value on a dict
SetItem(d, key, value) ==
  [k \in DOMAIN d \cup {key} |-> IF k = key THEN value ELSE d[k]]

\* The dict kept in one attribute of the agent instead of a local: every
\* invocation builds in the frame of the first.
SharedFrame(t) == CHOOSE u \in Tasks : \A v \in Tasks : u <= v

\* The frame that holds the dict invocation t builds: its own.
Owner(t) == t

\* Whether the scheduler lets invocation t execute its next statement.
CanRun(t) == loop.kind = "preemptive" \/ loop.holder \in {0, t}

ConcInit ==
  /\ tasks = [t \in Tasks |-> PendingFrame]
  /\ loop \in {[kind |-> "event_loop", holder |-> 0], [kind |-> "preemptive", holder |-> 0]}
  /\ op = "none"
  /\ pc = "idle"
  /\ err = "none"
  /\ cs_detections = << >>
  /\ cs_incidents = << >>
  /\ ms_alerts = << >>
  /\ pp_events = << >>
  /\ incidents = << >>
  /\ args = << >>
  /\ prompt = << >>
  /\ modelCalls = 0
  /\ response = NoResponse
  /\ investigation = << >>
  /\ result = << >>

\* The invocation starts: the investigation / results dict is created.
TaskStart(t) ==
  /\ tasks[t].pc = "pending"
  /\ CanRun(t)
  /\ \E call \in TaskCalls :
       /\ \A u \in Tasks \ {t} : tasks[u].call # call
       /\ tasks' =
            [[tasks EXCEPT ![t].call = call,
                           ![t].overlapped =
                             \E u \in Tasks \ {t} : tasks[u].pc \notin {"pending", "returned"},
                           ![t].pc = IF call.kind = "investigate" THEN "timeline"
                                     ELSE "call_model"]
               EXCEPT ![Owner(t)].data =
                 IF call.kind = "investigate" THEN NewInvestigation(call.incident)
                 ELSE NewHuntResults]
  /\ loop' = IF loop.kind = "event_loop" THEN [loop EXCEPT !.holder = t] ELSE loop
  /\ UNCHANGED seqVars

\* One gather step of investigate_incident.
TaskStep(t) ==
  /\ tasks[t].pc \in {"timeline", "related_events", "threat_intel", "affected_assets"}
  /\ CanRun(t)
  /\ LET call == tasks[t].call
         data == tasks[Owner(t)].data
         step == tasks[t].pc
         next == CASE step = "timeline" -> "related_events"
                   [] step = "related_events" -> "threat_intel"
                   [] step = "threat_intel" -> "affected_assets"
                   [] step = "affected_assets" -> "call_model"
         written ==
           CASE step = "timeline" /\ call.include_timeline ->
                  SetItem(data, "timeline", BuildTimeline(call.incident))
             [] step = "related_events" /\ call.include_related_events ->
                  SetItem(data, "related_events", FindRelatedEvents(call.incident))
             [] step = "threat_intel" /\ call.include_threat_intel ->
                  SetItem(data, "threat_intel", GetThreatIntelligence(call.incident))
             [] step = "affected_assets" ->
                  SetItem(data, "affected_assets", ExtractAffectedAssets(call.incident))
             [] OTHER -> data
     IN  tasks' = [[tasks EXCEPT ![t].pc = next] EXCEPT ![Owner(t)].data = written]
  /\ UNCHANGED <<seqVars, loop>>

\* self.anthropic.messages.create(...) is entered: the invocation waits for
\* the completion inside the call, without giving up the scheduler.
TaskCall(t) ==
  /\ tasks[t].pc = "call_model"
  /\ CanRun(t)
  /\ tasks' = [tasks EXCEPT ![t].pc = "waiting"]
  /\ UNCHANGED <<seqVars, loop>>

\* The model call returns or raises; the invocation stores the summary and
\* returns its dict.
TaskResume(t) ==
  /\ tasks[t].pc = "waiting"
  /\ CanRun(t)
  /\ \E outcome \in TaskOutcomes(tasks[t].call.kind) :
       LET data == tasks[Owner(t)].data
           done == IF tasks[t].call.kind = "investigate"
                     THEN SetItem(data, "ai_summary",
                                  GenerateInvestigationSummary(outcome).val)
                     ELSE SetItem(SetItem(data, "ai_summary",
                                          HuntHandle(outcome).result.ai_summary),
                                  "recommended_actions",
                                  HuntHandle(outcome).result.recommended_actions)
       IN  tasks' = [[tasks EXCEPT ![t].pc = "returned",
                                   ![t].response = outcome,
                                   ![t].result = done]
                       EXCEPT ![Owner(t)].data = done]
  /\ loop' = [loop EXCEPT !.holder = 0]
  /\ UNCHANGED seqVars

ConcNext ==
  \/ \E t \in Tasks : TaskStart(t)
  \/ \E t \in Tasks : TaskStep(t)
  \/ \E t \in Tasks : TaskCall(t)
  \/ \E t \in Tasks : TaskResume(t)

ConcSpec == ConcInit /\ [][ConcNext]_vars

-----------------------------------------------------------------------------
(* Properties                                                              *)

Count(x, seq) == Cardinality({k \in 1..Len(seq) : seq[k] = x})

ModelOps == {"analyze", "investigate", "generate_hypotheses", "execute_hunt"}

\* C1: generate_hypotheses returns a non-empty sequence of hypotheses for
\* every findings input and every model outcome (the call raising, a
\* completion without a '[' ... ']' pair, one whose bracketed substring does
\* not parse, one whose bracketed substring parses, even to an empty array).
C1_HypothesesNeverEmpty ==
  (op = "generate_hypotheses" /\ pc = "returned") => Len(result) > 0

\* C2: when the model call fails, analyze returns buckets that partition the
\* input: every input incident (beyond the first 50 too) is in exactly one of
\* high_priority, medium_priority, low_priority, as many times as it is in
\* the input; no bucket holds anything else; campaigns is empty.
C2_FallbackPartitionsInput ==
  (op = "analyze" /\ response = ModelError) =>
    /\ pc = "returned"
    /\ DOMAIN result = {"high_priority", "medium_priority", "low_priority", "campaigns"}
    /\ result.campaigns = << >>
    /\ LET buckets == <<result.high_priority, result.medium_priority, result.low_priority>>
           all     == buckets[1] \o buckets[2] \o buckets[3]
       IN  /\ \A x \in Range(args.incidents) :
                /\ Count(x, all) = Count(x, args.incidents)
                /\ Cardinality({b \in 1..3 : Count(x, buckets[b]) > 0}) = 1
           /\ Range(all) \subseteq Range(args.incidents)

C2_Witness ==
  /\ op = "analyze"
  /\ pc = "returned"
  /\ response = ModelError
  /\ Len(args.incidents) > SummaryLimit
  /\ result.high_priority # << >>
  /\ result.medium_priority # << >>
  /\ result.low_priority # << >>
  /\ \E x \in Range(args.incidents) : Count(x, args.incidents) > 1

InvestigationKeys ==
  {"incident_id", "timeline", "related_events", "threat_intel", "affected_assets",
   "ai_summary"}

InvestigateStep ==
  \/ InvestigateTimeline
  \/ InvestigateRelatedEvents
  \/ InvestigateThreatIntel
  \/ InvestigateAffectedAssets
  \/ InvestigateSummary

\* C3: investigate never fails: for every incident, every combination of the
\* three include_* flags and every model outcome no error leaves it, it can
\* always take its next step, and what it returns holds all of incident_id,
\* timeline, related_events, threat_intel, affected_assets and ai_summary.
C3_InvestigateNeverFails ==
  op = "investigate" =>
    /\ pc # "raised"
    /\ pc # "returned" => ENABLED InvestigateStep
    /\ pc = "returned" => DOMAIN result = InvestigationKeys

C3_Witness ==
  /\ op = "investigate"
  /\ pc = "returned"
  /\ response = ModelError
  /\ args.incident.id = None
  /\ ~args.include_timeline
  /\ DOMAIN result = InvestigationKeys

\* The substring from the first open to the last close, when some open stands
\* before some close.
HasPair(text, open, close) ==
  \E i, j \in 1..Len(text) : i < j /\ text[i] = open /\ text[j] = close

FirstToLast(text, open, close) ==
  LET i == CHOOSE a \in 1..Len(text) :
             text[a] = open /\ \A b \in 1..(a - 1) : text[b] # open
      j == CHOOSE a \in 1..Len(text) :
             text[a] = close /\ \A b \in (a + 1)..Len(text) : text[b] # close
  IN  SubSeq(text, i, j)

\* The failure cases of analyze: the model call raised, the completion has no
\* '{' ... '}' pair, or its substring from the first '{' to the last '}' is
\* no JSON.
AnalysisFailed(outcome) ==
  \/ outcome.kind = "error"
  \/ /\ outcome.kind = "text"
     /\ \/ ~HasPair(outcome.text, "{", "}")
        \/ ~JsonLoads(FirstToLast(outcome.text, "{", "}")).ok

\* C4: in every failure case of analyze (model call raising, no '{' ... '}'
\* pair in the completion, unparseable substring) the result is the same for
\* the same incidents: basic_prioritization(incidents).
C4_FailuresFallBackAlike ==
  (op = "analyze" /\ response # NoResponse /\ AnalysisFailed(response)) =>
    /\ pc = "returned"
    /\ result = BasicPrioritization(args.incidents)

C4_Witness ==
  /\ op = "analyze"
  /\ pc = "returned"
  /\ response.kind = "text"
  /\ HasPair(response.text, "{", "}")
  /\ ~JsonLoads(FirstToLast(response.text, "{", "}")).ok
  /\ args.incidents # << >>
  /\ result = BasicPrioritization(args.incidents)

\* C5: analyze never raises: for every list of incidents produced by
\* aggregate (with description, id, title or timestamp absent or null in the
\* vendor record) and every model outcome it returns a result.
C5_AnalyzeNeverRaises == ~(op = "analyze" /\ pc = "raised")

\* What each operation returns after a failed model call.
FallbackResult ==
  CASE op = "analyze" -> result = BasicPrioritization(args.incidents)
    [] op = "investigate" ->
         result = [investigation EXCEPT !.ai_summary = SummaryUnavailable]
    [] op = "generate_hypotheses" -> result = DefaultHypotheses
    [] op = "execute_hunt" ->
         result = [NewHuntResults EXCEPT !.ai_summary = HuntFallbackSummary]

\* C6: no model call is retried: one invocation of analyze, investigate,
\* generate_hypotheses or execute_hunt issues one model call, whatever the
\* call does, and after a failed call the operation has returned its
\* fallback result.
C6_NoModelCallRetried ==
  op \in ModelOps =>
    /\ modelCalls <= 1
    /\ pc = "returned" => modelCalls = 1
    /\ response # NoResponse => modelCalls = 1 /\ pc = "returned"
    /\ response = ModelError => FallbackResult

C6_Witness ==
  /\ op = "execute_hunt"
  /\ pc = "returned"
  /\ response = ModelError
  /\ modelCalls = 1
  /\ result.ai_summary = HuntFallbackSummary

\* The records of the four lists of the email payload.
EmailRecords ==
  UNION {Range(ListOr(pp_events, EmailListsAll[k])) : k \in 1..Len(EmailListsAll)}

ThreatTypeIsUrlOrAttachment(record) ==
  /\ "threatType" \in DOMAIN record
  /\ record.threatType \in {Some("url"), Some("attachment")}

ProofpointIncidents == FilterSeq(LAMBDA inc : inc.source = Some("Proofpoint"), incidents)

\* C7: a record of the email payload (messages_blocked, messages_delivered,
\* clicks_blocked, clicks_permitted) is in the aggregate output if and only
\* if its threat type is 'url' or 'attachment', and every Proofpoint incident
\* of the output has severity 'High'.
C7_EmailIncludedIffHighValue ==
  (op = "aggregate" /\ pc = "returned") =>
    /\ \A record \in EmailRecords :
         (\E k \in 1..Len(ProofpointIncidents) : ProofpointIncidents[k].raw_data = record)
           <=> ThreatTypeIsUrlOrAttachment(record)
    /\ \A k \in 1..Len(ProofpointIncidents) : ProofpointIncidents[k].severity = Some("High")

\* The email records in payload order: messages_blocked, messages_delivered,
\* clicks_blocked, clicks_permitted.
RECURSIVE EmailRecordList(_)
EmailRecordList(lists) ==
  IF lists = << >> THEN << >>
  ELSE ListOr(pp_events, Head(lists)) \o EmailRecordList(Tail(lists))

\* The vendor records an aggregate is built from, block after block.
SourceRecords ==
  ListOr(cs_detections, "detections")
    \o ListOr(cs_incidents, "incidents")
    \o ListOr(ms_alerts, "alerts")
    \o FilterSeq(ThreatTypeIsUrlOrAttachment, EmailRecordList(EmailListsAll))

\* C8: aggregate returns a sequence whose length is #detections + #endpoint
\* incidents + #identity alerts + #email records with threat type url or
\* attachment: detections first, then endpoint incidents, identity alerts and
\* email events, each block in input order.
C8_AggregateLengthAndOrder ==
  (op = "aggregate" /\ pc = "returned") =>
    /\ Len(incidents) = Len(SourceRecords)
    /\ \A k \in 1..Len(incidents) : incidents[k].raw_data = SourceRecords[k]

AllInputRecords ==
  Range(ListOr(cs_detections, "detections"))
    \cup Range(ListOr(cs_incidents, "incidents"))
    \cup Range(ListOr(ms_alerts, "alerts"))
    \cup EmailRecords

\* The incident's other fields are read from the record it carries.
BuiltFrom(inc, record) ==
  \/ inc.source = Some("CrowdStrike")
       /\ \/ /\ inc.id = Get(record, "detection_id")
             /\ inc.severity = GetOr(record, "max_severity_displayname", "Unknown")
             /\ inc.timestamp = Get(record, "first_behavior")
          \/ /\ inc.id = Get(record, "incident_id")
             /\ inc.severity = GetOr(record, "state", "Unknown")
             /\ inc.timestamp = Get(record, "start")
  \/ /\ inc.source = Some("Microsoft Defender")
     /\ inc.id = Get(record, "id")
     /\ inc.timestamp = Get(record, "created_datetime")
  \/ /\ inc.source = Some("Proofpoint")
     /\ inc.id = Get(record, "GUID")
     /\ inc.timestamp = Get(record, "messageTime")

RawDataIsSourceRecord ==
  (op = "aggregate" /\ pc = "returned") =>
    \A k \in 1..Len(incidents) :
      /\ incidents[k].raw_data \in AllInputRecords
      /\ BuiltFrom(incidents[k], incidents[k].raw_data)

PayloadsKept == pc # "idle" => payloadVars' = payloadVars

\* C9: every incident of the aggregate output carries as raw_data the vendor
\* record it was built from, unmodified, and aggregate (like every later
\* operation) leaves the four input payloads and their records as they were.
C9_RawDataPreserved == []RawDataIsSourceRecord /\ [][PayloadsKept]_vars

C9_Witness ==
  /\ op = "aggregate"
  /\ pc = "returned"
  /\ Len(incidents) >= 2
  /\ \E k \in 1..Len(incidents) :
       /\ incidents[k].raw_data = DetNullFields
       /\ incidents[k].id = None

\* No detection carries behaviors: null; the list is absent, empty or filled.
BehaviorsAbsentOrList ==
  \A d \in Range(ListOr(cs_detections, "detections")) : Get(d, "behaviors") # None

\* C10: for every vendor record with any subset of its optional fields absent
\* (an endpoint detection without behaviors, or with an empty behaviors list,
\* too) normalisation completes without error and fills the defaults.
C10_NormalizeNeverFails ==
  (op = "aggregate" /\ BehaviorsAbsentOrList) =>
    /\ pc = "returned"
    /\ \A k \in 1..Len(incidents) :
         LET inc == incidents[k]
             raw == inc.raw_data
         IN  /\ ("description" \notin DOMAIN raw /\ "behaviors" \notin DOMAIN raw
                  /\ "subject" \notin DOMAIN raw) => inc.description = Some(<< >>)
             /\ ("detection_id" \in DOMAIN raw /\ "behaviors" \notin DOMAIN raw)
                  => inc.title = Some("Unknown")
             /\ ("detection_id" \in DOMAIN raw
                  /\ "max_severity_displayname" \notin DOMAIN raw)
                  => inc.severity = Some("Unknown")
             /\ ("incident_id" \in DOMAIN raw /\ "name" \notin DOMAIN raw)
                  => inc.title = Some("Unnamed Incident")
             /\ ("incident_id" \in DOMAIN raw /\ "state" \notin DOMAIN raw)
                  => inc.severity = Some("Unknown")

\* The identifiers of one vendor list are pairwise distinct (an absent
\* identifier counts as a value of its own).
DistinctIds(list, key) ==
  \A i, j \in 1..Len(list) : i # j => Get(list[i], key) # Get(list[j], key)

DistinctVendorIds ==
  /\ DistinctIds(ListOr(cs_detections, "detections"), "detection_id")
  /\ DistinctIds(ListOr(cs_incidents, "incidents"), "incident_id")
  /\ DistinctIds(ListOr(ms_alerts, "alerts"), "id")
  /\ \A k \in 1..Len(EmailListsAll) : DistinctIds(ListOr(pp_events, EmailListsAll[k]), "GUID")

\* C11: in every aggregate output no two incidents have the same
\* (id, source) pair, whenever each vendor list has distinct record
\* identifiers (a detection and an endpoint incident may carry the same
\* identifier value).
C11_IdAndSourceUnique ==
  (op = "aggregate" /\ pc = "returned" /\ DistinctVendorIds) =>
    \A i, j \in 1..Len(incidents) :
      i # j => <<incidents[i].id, incidents[i].source>> # <<incidents[j].id, incidents[j].source>>

\* A source's payload is an error marker or holds no record.
FailedOrEmpty(payload, key) == "error" \in DOMAIN payload \/ ListOr(payload, key) = << >>

EmailFailedOrEmpty ==
  \/ "error" \in DOMAIN pp_events
  \/ \A k \in 1..Len(EmailListsAll) : ListOr(pp_events, EmailListsAll[k]) = << >>

\* The payload with an error marker replaced by the adapter's empty result.
Cleared(payload, empty) == IF "error" \in DOMAIN payload THEN empty ELSE payload

\* C12: a source whose payload is an error marker or empty makes aggregate
\* raise nothing and contributes no incident, and the output is what the
\* other sources give when that source hands over an empty list.
C12_ErrorMarkerIsEmptyResult ==
  op = "aggregate" =>
    LET r == AggregateIncidents(Cleared(cs_detections, DetectionsPayload(<< >>)),
                                Cleared(cs_incidents, IncidentsPayload(<< >>)),
                                Cleared(ms_alerts, AlertsPayload(<< >>)),
                                Cleared(pp_events, NoEmail))
    IN  /\ pc = (IF r.ok THEN "returned" ELSE "raised")
        /\ incidents = r.val
        /\ FailedOrEmpty(cs_detections, "detections") =>
             /\ pc = "returned"
             /\ Len(incidents) = Len(ListOr(cs_incidents, "incidents"))
                                   + Len(ListOr(ms_alerts, "alerts"))
                                   + Len(ProofpointIncidents)
        /\ (pc = "returned" /\ FailedOrEmpty(cs_incidents, "incidents")) =>
             \A k \in 1..Len(incidents) : "incident_id" \notin DOMAIN incidents[k].raw_data
        /\ (pc = "returned" /\ FailedOrEmpty(ms_alerts, "alerts")) =>
             \A k \in 1..Len(incidents) : incidents[k].source # Some("Microsoft Defender")
        /\ (pc = "returned" /\ EmailFailedOrEmpty) => ProofpointIncidents = << >>

C12_Witness ==
  /\ op = "aggregate"
  /\ pc = "returned"
  /\ cs_detections = ErrorMarker
  /\ pp_events = EmailErrorMarker
  /\ Len(incidents) = 2
  /\ incidents[1].source = Some("CrowdStrike")
  /\ incidents[2].source = Some("Microsoft Defender")

AnySourceFailed ==
  \E payload \in {cs_detections, cs_incidents, ms_alerts, pp_events} : "error" \in DOMAIN payload

\* C13: when an adapter returned an error marker for a source, the aggregate
\* output shows it: the output differs from the output for the same payloads
\* with that source empty, so that a caller can tell a failed source from one
\* without records.
C13_ErrorVisibleInAggregate ==
  (op = "aggregate" /\ pc = "returned" /\ AnySourceFailed) =>
    incidents # AggregateIncidents(Cleared(cs_detections, DetectionsPayload(<< >>)),
                                   Cleared(cs_incidents, IncidentsPayload(<< >>)),
                                   Cleared(ms_alerts, AlertsPayload(<< >>)),
                                   Cleared(pp_events, NoEmail)).val

HuntReturnedText ==
  op = "execute_hunt" /\ pc = "returned" /\ response.kind = "text"

\* The text between the end of the first 'SUMMARY:' and the first 'ACTIONS:'.
BetweenMarkers(text) ==
  SubSeq(text, Find(text, SummaryMarker) + Len(SummaryMarker) + 1, Find(text, ActionsMarker))

\* The lines after the first 'ACTIONS:'.
LinesAfterActions(text) ==
  SplitLines(SubSeq(text, Find(text, ActionsMarker) + Len(ActionsMarker) + 1, Len(text)),
             << >>, << >>)

\* The lines whose first non-blank character is '-', each without its
\* leading dashes and the whitespace around it.
RECURSIVE DashLines(_)
DashLines(lines) ==
  IF lines = << >> THEN << >>
  ELSE LET l == Strip(Head(lines))
       IN  (IF l # << >> /\ l[1] = "-" THEN <<Strip(LStrip(l, {"-"}))>> ELSE << >>)
             \o DashLines(Tail(lines))

\* C14: for a completion in which 'SUMMARY:' occurs and 'ACTIONS:' occurs
\* after it, execute_hunt returns as ai_summary the trimmed text between the
\* first 'SUMMARY:' and the first 'ACTIONS:' and as recommended_actions the
\* dash lines after 'ACTIONS:', in order, without dash and surrounding
\* whitespace; 'SUMMARY: X\n\nACTIONS:\n- A1\n- A2' gives 'X' and
\* ['A1', 'A2'].
C14_HuntParsesMarkers ==
  HuntReturnedText =>
    /\ (Contains(response.text, SummaryMarker)
         /\ Find(response.text, ActionsMarker) > Find(response.text, SummaryMarker)) =>
           /\ result.ai_summary = Strip(BetweenMarkers(response.text))
           /\ result.recommended_actions = DashLines(LinesAfterActions(response.text))
    /\ response.text = HuntExampleText =>
           /\ result.ai_summary = <<"X">>
           /\ result.recommended_actions = << <<"A", "1">>, <<"A", "2">> >>

C14_Witness ==
  /\ HuntReturnedText
  /\ response.text = HuntExampleText
  /\ Len(result.recommended_actions) = 2

\* C15: when the model call succeeds and the completion contains neither
\* 'SUMMARY:' nor 'ACTIONS:', execute_hunt returns status 'completed',
\* ai_summary '' and no recommended action; it does not take the failure path.
C15_NoMarkersIsNoError ==
  (op = "execute_hunt" /\ pc # "call_model" /\ response.kind = "text"
     /\ ~Contains(response.text, SummaryMarker)
     /\ ~Contains(response.text, ActionsMarker)) =>
    /\ pc = "returned"
    /\ result.status = "completed"
    /\ result.ai_summary = << >>
    /\ result.ai_summary # HuntFallbackSummary
    /\ result.recommended_actions = << >>

C15_Witness ==
  /\ HuntReturnedText
  /\ response.text = <<"X", "\n", "-">>
  /\ result.ai_summary = << >>

\* C16: when the model call of execute_hunt fails, the call returns (no error
\* reaches the caller) a result with the fixed ai_summary 'Hunt execution
\* completed. Manual review recommended.', no recommended action, no
\* evidence and status 'completed'.
C16_HuntFailureFallback ==
  (op = "execute_hunt" /\ response.kind = "error") =>
    /\ pc = "returned"
    /\ result.ai_summary = HuntFallbackSummary
    /\ result.recommended_actions = << >>
    /\ result.evidence = << >>
    /\ result.status = "completed"

C16_Witness ==
  /\ op = "execute_hunt"
  /\ pc = "returned"
  /\ response = ModelError
  /\ args.hypothesis = BareHypothesis
  /\ result.status = "completed"

AnalyzeFellBack ==
  op = "analyze" /\ pc = "returned" /\ AnalysisFailed(response)

\* C17: basic_prioritization puts an incident in high_priority iff its
\* severity is 'Critical', 'High', 'critical' or 'high', in medium_priority
\* iff it is 'Medium' or 'medium', and in low_priority for every other
\* severity, an absent one too; campaigns is empty.
C17_BucketsBySeverity ==
  AnalyzeFellBack =>
    /\ \A inc \in Range(args.incidents) :
         LET high   == Get(inc, "severity") \in
                         {Some("Critical"), Some("High"), Some("critical"), Some("high")}
             medium == Get(inc, "severity") \in {Some("Medium"), Some("medium")}
         IN  /\ inc \in Range(result.high_priority) <=> high
             /\ inc \in Range(result.medium_priority) <=> medium
             /\ inc \in Range(result.low_priority) <=> (~high /\ ~medium)
    /\ result.campaigns = << >>

C17_Witness ==
  /\ AnalyzeFellBack
  /\ \E inc \in Range(result.low_priority) : inc.severity = None
  /\ \E inc \in Range(result.low_priority) : inc.severity = Some("HIGH")
  /\ \E inc \in Range(result.medium_priority) : inc.severity = Some("medium")
  /\ \E inc \in Range(result.high_priority) : inc.severity = Some("Critical")

\* C18: in the fallback path the incidents inside the priority buckets are
\* the input incidents field for field (description in full, raw_data kept,
\* none dropped past the 50th), and building the prompt summary leaves the
\* incidents passed in as they were.
C18_FallbackKeepsIncidents ==
  AnalyzeFellBack =>
    LET all == result.high_priority \o result.medium_priority \o result.low_priority
    IN  /\ args.incidents = incidents
        /\ Len(all) = Len(incidents)
        /\ Range(all) = Range(incidents)
        /\ \A k \in 1..Len(all) : "raw_data" \in DOMAIN all[k]

C18_Witness ==
  /\ AnalyzeFellBack
  /\ Len(incidents) > SummaryLimit
  /\ \E inc \in Range(result.high_priority) :
       /\ Len(inc.description[1]) > DescriptionLimit
       /\ inc.raw_data = DetLong
  /\ Len(result.high_priority) + Len(result.medium_priority) + Len(result.low_priority)
       > SummaryLimit

\* The first n characters of a text, the whole text when it is shorter.
FirstChars(text, n) == [k \in 1..(IF Len(text) < n THEN Len(text) ELSE n) |-> text[k]]

\* C19: the summary analyze sends to the model has min(n, 50) entries, the
\* first 50 incidents in the given order; an entry's description is the
\* first 200 characters of the incident's description, its other fields are
\* the incident's, and raw_data is not part of it.
C19_SummaryTruncates ==
  (op = "analyze" /\ pc # "raised") =>
    /\ Len(prompt) = (IF Len(args.incidents) < 50 THEN Len(args.incidents) ELSE 50)
    /\ \A k \in 1..Len(prompt) :
         LET entry == prompt[k]
             inc   == args.incidents[k]
         IN  /\ DOMAIN entry = {"id", "title", "description", "severity", "source", "timestamp"}
             /\ entry.description = Some(FirstChars(inc.description[1], 200))
             /\ \A f \in {"id", "title", "severity", "source", "timestamp"} : entry[f] = inc[f]

C19_Witness ==
  /\ op = "analyze"
  /\ pc = "call_model"
  /\ Len(args.incidents) > 50
  /\ Len(prompt) = 50
  /\ Len(args.incidents[1].description[1]) = 201
  /\ Len(prompt[1].description[1]) = 200

\* The failure cases of generate_hypotheses: the model call raised, the
\* completion has no '[' ... ']' pair, or its substring from the first '['
\* to the last ']' is no JSON.
HypothesesFailed(outcome) ==
  \/ outcome.kind = "error"
  \/ /\ outcome.kind = "text"
     /\ \/ ~HasPair(outcome.text, "[", "]")
        \/ ~JsonLoads(FirstToLast(outcome.text, "[", "]")).ok

\* C20: in every failure case generate_hypotheses returns exactly one
\* hypothesis, the same for every findings input, with title, priority
\* (High, Medium or Low), tactics, description, hunting_steps and
\* expected_indicators.
C20_DefaultHypothesis ==
  (op = "generate_hypotheses" /\ response # NoResponse /\ HypothesesFailed(response)) =>
    /\ pc = "returned"
    /\ Len(result) = 1
    /\ result = DefaultHypotheses
    /\ DOMAIN result[1] = {"title", "priority", "mitre_tactics", "description",
                           "hunting_steps", "expected_indicators"}
    /\ result[1].priority \in {"High", "Medium", "Low"}
    /\ result[1].mitre_tactics # << >>
    /\ result[1].hunting_steps # << >>
    /\ result[1].expected_indicators # << >>

C20_Witness ==
  /\ op = "generate_hypotheses"
  /\ pc = "returned"
  /\ response.kind = "text"
  /\ HasPair(response.text, "[", "]")
  /\ ~JsonLoads(FirstToLast(response.text, "[", "]")).ok
  /\ args.findings = LongFindings
  /\ Len(result) = 1

InvestigateReturned == op = "investigate" /\ pc = "returned"

\* C21: investigate fills affected_assets with a hosts and a users collection
\* for all eight combinations of the three include_* flags, and a gather step
\* whose flag is false is not run: its field keeps its empty initial value.
C21_AssetsAlwaysFlagsRespected ==
  /\ InvestigateReturned =>
       /\ DOMAIN result.affected_assets = {"hosts", "users"}
       /\ result.affected_assets.hosts = << >>
       /\ result.affected_assets.users = << >>
  /\ op = "investigate" =>
       /\ ~args.include_timeline => investigation.timeline = << >>
       /\ ~args.include_related_events => investigation.related_events = << >>
       /\ ~args.include_threat_intel => investigation.threat_intel = << >>

C21_Witness ==
  /\ InvestigateReturned
  /\ ~args.include_timeline
  /\ ~args.include_related_events
  /\ ~args.include_threat_intel
  /\ result.timeline = << >>
  /\ DOMAIN result.affected_assets = {"hosts", "users"}

\* The incident's own detection event.
DetectionEvent(incident, entry) ==
  /\ entry.timestamp = incident.timestamp
  /\ entry.source = incident.source
  /\ entry.description =
       "Incident detected: " \o (IF incident.title = None THEN "None" ELSE incident.title[1])

\* C22: the timeline of every Investigation investigate returns has at least
\* one entry, and its first entry is the incident's own detection event.
C22_TimelineNeverEmpty ==
  InvestigateReturned =>
    /\ Len(result.timeline) >= 1
    /\ DetectionEvent(args.incident, result.timeline[1])

\* C22 as amended: the timeline of every Investigation returned by an
\* investigate call with include_timeline true has at least one entry, and
\* its first entry is the incident's own detection event.
C22_TimelineWhenIncluded ==
  (InvestigateReturned /\ args.include_timeline) =>
    /\ Len(result.timeline) >= 1
    /\ DetectionEvent(args.incident, result.timeline[1])

C22_Witness ==
  /\ InvestigateReturned
  /\ args.include_timeline
  /\ ~args.include_threat_intel
  /\ args.incident.title = Some("Ransomware")
  /\ result.timeline[1].description = "Incident detected: Ransomware"

\* What the gather steps give for an incident and the three flags.
GatheredFields(a) ==
  [incident_id     |-> a.incident.id,
   timeline        |-> IF a.include_timeline
                         THEN << [timestamp   |-> a.incident.timestamp,
                                  description |-> "Incident detected: "
                                     \o (IF a.incident.title = None THEN "None"
                                         ELSE a.incident.title[1]),
                                  source      |-> a.incident.source,
                                  indicators  |-> << >>] >>
                         ELSE << >>,
   related_events  |-> << >>,
   threat_intel    |-> IF a.include_threat_intel
                         THEN [actor |-> "Unknown", ttps |-> << >>, malware_family |-> "Unknown"]
                         ELSE << >>,
   affected_assets |-> [hosts |-> << >>, users |-> << >>]]

OtherFields(inv) == [f \in DOMAIN inv \ {"ai_summary"} |-> inv[f]]

\* C23: when the summary model call fails, ai_summary is the literal
\* 'Investigation summary unavailable.' and every other field of the
\* returned Investigation is what it is when the call succeeds: a function of
\* the incident and the flags alone.
C23_SummaryFailureKeepsFields ==
  InvestigateReturned =>
    /\ OtherFields(result) = GatheredFields(args)
    /\ response.kind = "error" => result.ai_summary = SummaryUnavailable
    /\ response.kind = "text" => result.ai_summary = response.text

C23_Witness ==
  /\ InvestigateReturned
  /\ response = ModelError
  /\ args.include_timeline
  /\ args.include_threat_intel
  /\ result.ai_summary = SummaryUnavailable
  /\ Len(result.timeline) = 1

\* A severity name in lower case.
LowerCase(name) ==
  CASE name \in {"Critical", "critical", "CRITICAL"} -> "critical"
    [] name \in {"High", "high", "HIGH"} -> "high"
    [] name \in {"Medium", "medium", "MEDIUM"} -> "medium"
    [] name \in {"Low", "low", "LOW"} -> "low"
    [] name \in {"Unknown", "unknown", "UNKNOWN"} -> "unknown"
    [] OTHER -> name

SameBucket(a, b) ==
  \A bucket \in {result.high_priority, result.medium_priority, result.low_priority} :
    a \in Range(bucket) <=> b \in Range(bucket)

\* C26: severity is compared without regard to letter case: the fallback
\* prioritization places two incidents whose severities differ only in case
\* ('High', 'high', 'HIGH') in the same bucket.
C26_SeverityCaseInsensitive ==
  AnalyzeFellBack =>
    \A a, b \in Range(args.incidents) :
      (a.severity # None /\ b.severity # None
         /\ LowerCase(a.severity[1]) = LowerCase(b.severity[1])) => SameBucket(a, b)

AnalysisKeys ==
  {<<"h", "i", "g", "h", "_", "p", "r", "i", "o", "r", "i", "t", "y">>,
   <<"m", "e", "d", "i", "u", "m", "_", "p", "r", "i", "o", "r", "i", "t", "y">>,
   <<"l", "o", "w", "_", "p", "r", "i", "o", "r", "i", "t", "y">>,
   <<"c", "a", "m", "p", "a", "i", "g", "n", "s">>}

\* The value is a mapping with the four keys, each bound to a sequence: a
\* parsed JSON object, or the dict the fallback builds.
HasFourSequences(v) ==
  IF "t" \in DOMAIN v
    THEN /\ v.t = "object"
         /\ \A key \in AnalysisKeys :
              \E k \in 1..Len(v.keys) : v.keys[k] = key /\ v.vals[k].t = "array"
    ELSE {"high_priority", "medium_priority", "low_priority", "campaigns"} \subseteq DOMAIN v

\* C27: for every model completion, parseable or not, the result of analyze
\* is a mapping that holds all of high_priority, medium_priority,
\* low_priority and campaigns, each bound to a sequence.
C27_AnalysisHasFourKeys ==
  (op = "analyze" /\ pc = "returned") => HasFourSequences(result)

\* C28: investigate issues the summary model call only after the timeline,
\* related-events, threat-intel and affected-assets steps; the call's input
\* is the Investigation with those fields as returned and ai_summary still
\* empty, and ai_summary is written last, right before the return.
C28_SummaryCallComesLast ==
  op = "investigate" =>
    /\ pc # "returned" =>
         /\ modelCalls = 0
         /\ response = NoResponse
         /\ investigation.ai_summary = << >>
    /\ pc = "summary" => investigation.affected_assets # << >>
    /\ pc = "returned" =>
         /\ modelCalls = 1
         /\ prompt.ai_summary = << >>
         /\ OtherFields(prompt) = OtherFields(result)
         /\ prompt.affected_assets = [hosts |-> << >>, users |-> << >>]

C28_Witness ==
  /\ InvestigateReturned
  /\ response = Completion(TextA)
  /\ args.include_timeline
  /\ Len(prompt.timeline) = 1
  /\ prompt.ai_summary = << >>
  /\ result.ai_summary = TextA

\* C29: when the completion contains 'SUMMARY:' but no 'ACTIONS:',
\* execute_hunt sets ai_summary to the whole trimmed text after 'SUMMARY:',
\* no character lost, and leaves recommended_actions empty.
C29_SummaryWithoutActions ==
  (HuntReturnedText /\ Contains(response.text, SummaryMarker)
     /\ ~Contains(response.text, ActionsMarker)) =>
    /\ result.ai_summary =
         Strip(SubSeq(response.text,
                      Find(response.text, SummaryMarker) + Len(SummaryMarker) + 1,
                      Len(response.text)))
    /\ result.recommended_actions = << >>

ActionsWellFormed == \A k \in 1..Len(args.actions) : "description" \in DOMAIN args.actions[k]

\* C30: execute_response_actions returns one result per input action, in
\* input order; an action is reported success = True iff its can_automate is
\* truthy or auto_approve_safe_actions is true, and every other action
\* success = False with the message 'Action requires manual approval'.
C30_OneResultPerAction ==
  (op = "execute_response_actions" /\ ActionsWellFormed) =>
    /\ pc = "returned"
    /\ Len(result) = Len(args.actions)
    /\ \A k \in 1..Len(result) :
         LET action    == args.actions[k]
             automated == /\ "can_automate" \in DOMAIN action
                          /\ action.can_automate \in {"True", "'yes'"}
         IN  /\ result[k].action = action.description
             /\ result[k].success <=> (automated \/ args.auto_approve_safe_actions)
             /\ ~result[k].success => result[k].message = "Action requires manual approval"

C30_Witness ==
  /\ op = "execute_response_actions"
  /\ pc = "returned"
  /\ ~args.auto_approve_safe_actions
  /\ Len(result) = 2
  /\ result[1].success
  /\ result[1].action = "Quarantine message"
  /\ ~result[2].success
  /\ result[2].action = "Isolate affected hosts"

\* What the invocation returns when it runs alone with the same model outcome.
AloneResult(call, outcome) ==
  IF call.kind = "investigate"
    THEN [f \in InvestigationKeys |->
            IF f = "ai_summary"
              THEN (IF outcome.kind = "error" THEN SummaryUnavailable ELSE outcome.text)
              ELSE GatheredFields(call)[f]]
    ELSE HuntHandle(outcome).result

ResultAsAlone ==
  \A t \in Tasks :
    tasks[t].pc = "returned" => tasks[t].result = AloneResult(tasks[t].call, tasks[t].response)

\* Any statement of invocation t.
TaskAct(t) == TaskStart(t) \/ TaskStep(t) \/ TaskCall(t) \/ TaskResume(t)

\* A statement of one invocation leaves the frame of the other as it was.
FramesIsolated ==
  \A t \in Tasks : TaskAct(t) => \A u \in Tasks \ {t} : tasks'[u] = tasks[u]

\* C24: for every interleaving of two concurrent investigate or execute_hunt
\* invocations with different inputs, each invocation returns the result it
\* returns when run alone, and no statement of one reads or writes the
\* Investigation, result record or other state of the other.
C24_InvocationsIndependent == []ResultAsAlone /\ [][FramesIsolated]_vars

C24_Witness ==
  /\ \A t \in Tasks : tasks[t].pc = "returned" /\ tasks[t].call.kind = "investigate"
  /\ \E t \in Tasks : tasks[t].overlapped
  /\ tasks[1].call.include_timeline
  /\ tasks[2].call.incident # tasks[1].call.incident
  /\ tasks[2].result.incident_id # tasks[1].result.incident_id
  /\ tasks[2].result.ai_summary # tasks[1].result.ai_summary

\* C25: a model call is a suspension point: while one operation waits for
\* its model call to return, another pending operation on the same event
\* loop can take steps before that call returns.
C25_ModelCallSuspends ==
  loop.kind = "event_loop" =>
    \A t \in Tasks :
      tasks[t].pc = "waiting" =>
        \A u \in Tasks \ {t} : tasks[u].pc # "returned" => ENABLED TaskAct(u)

====
